---- MODULE Spec2Model ----
(***************************************************************************)
(* Model of the duplicate-extraction core: the UTF-8 string facade         *)
(* (utf8_handler), the document store (document_store), the suffix-array   *)
(* builder (naive_suffix_builder) and the duplicate finder                 *)
(* (duplicate_finder).                                                     *)
(*                                                                         *)
(* Vectors are 1-based sequences; the code's 0-based index i is read with  *)
(* At(v, i) and written with Put(v, i, x).  Bytes are 0..255.              *)
(***************************************************************************)
EXTENDS Integers, Sequences, FiniteSets, TLC

(***************************************************************************)
(* Bounds of the model and the inputs the actions draw from.               *)
(***************************************************************************)
\* longest concatenated text (in code points) an insertion may produce
MaxTextLen == 6
\* largest min_length handed to find_duplicates
MaxMinLength == 3

\* the code points documents and separators are made of, as UTF-8 byte
\* sequences: '$' (1 byte) and U+00E9 (2 bytes)
Dollar == <<36>>
EAcute == <<195, 169>>
Alphabet == {Dollar, EAcute}

\* the ids add_document is called with
SqlIds == {1, 2, 3}

\* the separators a store is constructed with: none, the default "$", and a
\* separator of two code points
Separators == {<< >>, <<Dollar>>, <<Dollar, EAcute>>}

\* the document bodies add_document is called with, as code points: empty,
\* the separator's code points alone, and bodies of one and two code points
\* with and without a separator code point
DocBodies == {<< >>, <<Dollar>>, <<EAcute>>, <<EAcute, EAcute>>, <<EAcute, Dollar>>}

\* size_t arithmetic wraps modulo 2^64; the model keeps every genuine value
\* far below this modulus, so a wrapped value exceeds every genuine one
\* exactly as it does in the 64-bit build
SizeTModulus == 1073741824

(***************************************************************************)
(* Vector helpers.                                                         *)
(***************************************************************************)
At(v, i) == v[i + 1]
Put(v, i, x) == [v EXCEPT ![i + 1] = x]
Fill(n, x) == [i \in 1..n |-> x]
Min(a, b) == IF a < b THEN a ELSE b
Max(a, b) == IF a < b THEN b ELSE a

RECURSIVE Flatten(_)
\* the bytes of a sequence of code points
Flatten(cps) ==
    IF cps = << >> THEN << >> ELSE Head(cps) \o Flatten(Tail(cps))

\* size_t subtraction a - b
SubSizeT(a, b) == IF a >= b THEN a - b ELSE SizeTModulus - (b - a)

\* size_t addition a + b
AddSizeT(a, b) == (a + b) % SizeTModulus

(***************************************************************************)
(* UTF8String: data_ (bytes), char_pos_ (byte offset of each code point),  *)
(* char_count_.  A string whose construction threw is the value UTF8Error. *)
(***************************************************************************)
UTF8Error == [error |-> "UTF8Error"]

\* std::out_of_range, as thrown by substr, operator[] and find_document_id
OutOfRange == [error |-> "out_of_range"]

\* mutation of CharBytes: the three-byte test masks with 0xE0 in place of
\* 0xF0, so that it takes the leaders 1111xxxx as well
CharBytesWideThreeByteMask(first_byte) ==
    IF first_byte \div 128 = 0 THEN 1
    ELSE IF first_byte \div 32 = 6 THEN 2
    ELSE IF first_byte \div 32 = 7 THEN 3
    ELSE IF first_byte \div 8 = 30 THEN 4
    ELSE 0

\* the number of bytes the leading byte announces, 0 for an invalid leader
CharBytes(first_byte) ==
    IF first_byte \div 128 = 0 THEN 1
    ELSE IF first_byte \div 32 = 6 THEN 2
    ELSE IF first_byte \div 16 = 14 THEN 3
    ELSE IF first_byte \div 8 = 30 THEN 4
    ELSE 0

\* the overlong checks of indexString's switch
Overlong(bytes, pos, char_bytes) ==
    LET first_byte == At(bytes, pos) IN
    CASE char_bytes = 2 -> (first_byte \div 2) % 16 = 0
      [] char_bytes = 3 -> first_byte = 224 /\ (At(bytes, pos + 1) \div 32) % 2 = 0
      [] char_bytes = 4 -> first_byte = 240 /\ (At(bytes, pos + 1) \div 16) % 4 = 0
      [] OTHER -> FALSE

RECURSIVE IndexLoop(_, _, _)
\* the while loop of indexString from byte offset pos, char_pos being the
\* offsets pushed so far
IndexLoop(bytes, pos, char_pos) ==
    IF pos >= Len(bytes) THEN [data_ |-> bytes, char_pos_ |-> char_pos,
                               char_count_ |-> Len(char_pos)]
    ELSE LET char_bytes == CharBytes(At(bytes, pos)) IN
         IF char_bytes = 0 THEN UTF8Error
         ELSE IF pos + char_bytes > Len(bytes) THEN UTF8Error
         ELSE IF \E i \in 1..(char_bytes - 1) : At(bytes, pos + i) \div 64 # 2
              THEN UTF8Error
         ELSE IF Overlong(bytes, pos, char_bytes) THEN UTF8Error
         ELSE IndexLoop(bytes, pos + char_bytes, Append(char_pos, pos))

\* UTF8String(const std::string&)
MkUTF8String(bytes) == IndexLoop(bytes, 0, << >>)

\* UTF8String::length
Length(s) == s.char_count_

\* UTF8String::operator[] for index < char_count_: the bytes of one code point
CharAt(s, index) ==
    LET start == At(s.char_pos_, index)
        length == IF index + 1 < s.char_count_
                  THEN At(s.char_pos_, index + 1) - start
                  ELSE Len(s.data_) - start
    IN SubSeq(s.data_, start + 1, start + length)

\* mutation of Concat: the operands are joined in the wrong order
ConcatSwapped(a, b) == MkUTF8String(b.data_ \o a.data_)

\* UTF8String::operator+
Concat(a, b) == MkUTF8String(a.data_ \o b.data_)

\* std::string::substr(pos, count): std::out_of_range when pos > size(),
\* otherwise the bytes [pos, pos + min(count, size() - pos))
StdSubstr(data, pos, count) ==
    IF pos > Len(data) THEN [threw |-> TRUE, value |-> << >>]
    ELSE [threw |-> FALSE,
          value |-> SubSeq(data, pos + 1, pos + Min(count, Len(data) - pos))]

\* UTF8String::substr(start, length); out_of_bounds is what the read of
\* char_pos_[start] yields when start is not below char_pos_.size()
Substr(s, start, length, out_of_bounds) ==
    IF start > s.char_count_ THEN OutOfRange
    ELSE IF AddSizeT(start, length) > s.char_count_ THEN OutOfRange
    ELSE IF length = 0 THEN MkUTF8String(<< >>)
    ELSE LET begin_pos == IF start < Len(s.char_pos_) THEN At(s.char_pos_, start)
                          ELSE out_of_bounds
             end_pos == IF AddSizeT(start, length) < s.char_count_
                        THEN At(s.char_pos_, AddSizeT(start, length))
                        ELSE Len(s.data_)
             bytes == StdSubstr(s.data_, begin_pos, SubSizeT(end_pos, begin_pos))
         IN IF bytes.threw THEN OutOfRange ELSE MkUTF8String(bytes.value)

\* the code points of a string, in order
CodePoints(s) == [i \in 1..Length(s) |-> CharAt(s, i - 1)]

RECURSIVE BytesLessSigned(_, _)
\* mutation of BytesLess: the bytes are compared as signed char
BytesLessSigned(x, y) ==
    IF y = << >> THEN FALSE
    ELSE IF x = << >> THEN TRUE
    ELSE IF Head(x) # Head(y)
         THEN (IF Head(x) >= 128 THEN Head(x) - 256 ELSE Head(x))
                  < (IF Head(y) >= 128 THEN Head(y) - 256 ELSE Head(y))
    ELSE BytesLessSigned(Tail(x), Tail(y))

RECURSIVE BytesLess(_, _)
\* std::string operator< : lexicographic over unsigned bytes
BytesLess(x, y) ==
    IF y = << >> THEN FALSE
    ELSE IF x = << >> THEN TRUE
    ELSE IF Head(x) # Head(y) THEN Head(x) < Head(y)
    ELSE BytesLess(Tail(x), Tail(y))

\* Character::operator<
CharLess(a, b) == BytesLess(a, b)

\* Character::operator==
CharEq(a, b) == a = b

\* UTF8String::operator==
StringEq(a, b) == a.data_ = b.data_

\* UTF8String::operator<
StringLess(a, b) == BytesLess(a.data_, b.data_)

RECURSIVE PushOffsetsUnshifted(_, _, _, _, _, _)
\* mutation of PushOffsets: the offsets of other are pushed as they are,
\* without original_size added
PushOffsetsUnshifted(char_pos, other_pos, aliased, i, end, original_size) ==
    IF i >= end THEN char_pos
    ELSE LET read == IF aliased THEN At(char_pos, i) ELSE At(other_pos, i)
         IN PushOffsetsUnshifted(Append(char_pos, read), other_pos, aliased,
                                 i + 1, end, original_size)

RECURSIVE PushOffsets(_, _, _, _, _, _)
\* operator+=: for (size_t pos : other.char_pos_) char_pos_.push_back(pos +
\* original_size), from the i-th element to the end the loop fixed on entry;
\* when other is *this the elements are read from the vector being grown
PushOffsets(char_pos, other_pos, aliased, i, end, original_size) ==
    IF i >= end THEN char_pos
    ELSE LET read == IF aliased THEN At(char_pos, i) ELSE At(other_pos, i)
         IN PushOffsets(Append(char_pos, read + original_size), other_pos, aliased,
                        i + 1, end, original_size)

\* UTF8String::operator+=(const UTF8String&) on the object a; aliased when
\* other is a itself, whose members are then read as they stand at each step
PlusAssign(a, other, aliased) ==
    IF (IF aliased THEN a.data_ ELSE other.data_) = << >> THEN a
    ELSE LET original_size == Len(a.data_)
             original_char_count == a.char_count_
             data == a.data_ \o (IF aliased THEN a.data_ ELSE other.data_)
             end == IF aliased THEN Len(a.char_pos_) ELSE Len(other.char_pos_)
             char_pos == PushOffsets(a.char_pos_, other.char_pos_, aliased, 0, end,
                                     original_size)
             other_char_count == IF aliased THEN a.char_count_ ELSE other.char_count_
         IN [data_ |-> data, char_pos_ |-> char_pos,
             char_count_ |-> original_char_count + other_char_count]

\* UTF8String::operator+=(const std::string&): UTF8Error when the bytes are
\* not accepted, a unchanged then
PlusAssignBytes(a, bytes) ==
    IF bytes = << >> THEN a
    ELSE LET temp == MkUTF8String(bytes)
         IN IF temp = UTF8Error THEN UTF8Error ELSE PlusAssign(a, temp, FALSE)

(***************************************************************************)
(* DocumentStore                                                           *)
(***************************************************************************)
VARIABLES
    separator_,          \* DocumentStore::separator_ (UTF8String)
    concatenated_text_,  \* DocumentStore::concatenated_text_ (UTF8String)
    documents_,          \* std::set<DocumentPosition> in its order (by sql_id)
    pos_index_,          \* std::vector<DocumentPosition> (by start_pos)
    suffix_builder_,     \* the finder's NaiveSuffixBuilder
    history,             \* the accepted insertions, in order (observation)
    last_built,          \* what the latest successful build was given and produced
                         \* (observation)
    ret                  \* the last call, its arguments and what it returned

storeVars == <<separator_, concatenated_text_, documents_, pos_index_>>
vars == <<separator_, concatenated_text_, documents_, pos_index_, suffix_builder_,
          history, last_built, ret>>

\* std::lower_bound over docs with the comparator a.sql_id < b.sql_id:
\* 0-based index of the first record whose sql_id is not below sql_id
LowerBoundById(docs, sql_id) ==
    LET below == {i \in 1..Len(docs) : \A j \in 1..i : docs[j].sql_id < sql_id}
    IN Cardinality(below)

\* mutation of FindBySqlId: the equality test after lower_bound is missing
FindBySqlIdNoEquality(docs, sql_id) == LowerBoundById(docs, sql_id)

\* find_by_sql_id: the 0-based index in documents_, Len(documents_) for end()
FindBySqlId(docs, sql_id) ==
    LET it == LowerBoundById(docs, sql_id) IN
    IF it # Len(docs) /\ At(docs, it).sql_id = sql_id THEN it ELSE Len(docs)

\* mutation of SetInsert: the record is assigned through the hint, over the
\* record that stands there, instead of being inserted before it
SetInsertOverwriting(docs, doc_pos) ==
    LET at == LowerBoundById(docs, doc_pos.sql_id) IN
    IF at = Len(docs) THEN Append(docs, doc_pos) ELSE Put(docs, at, doc_pos)

\* std::set::insert(hint, value): no effect when an equivalent key is present
SetInsert(docs, doc_pos) ==
    IF \E i \in 1..Len(docs) : docs[i].sql_id = doc_pos.sql_id THEN docs
    ELSE LET at == LowerBoundById(docs, doc_pos.sql_id) IN
         SubSeq(docs, 1, at) \o <<doc_pos>> \o SubSeq(docs, at + 1, Len(docs))

\* std::upper_bound over pos_index_ with pos < doc.start_pos: 0-based index of
\* the first record whose start_pos is above pos
UpperBoundByStart(index, pos) ==
    LET notAbove == {i \in 1..Len(index) : \A j \in 1..i : ~(pos < index[j].start_pos)}
    IN Cardinality(notAbove)

\* mutation of FindDocumentId: the separator is counted for the last document too
FindDocumentIdSeparatorAlways(index, sep, pos) ==
    IF index = << >> THEN OutOfRange
    ELSE LET ub == UpperBoundByStart(index, pos) IN
         IF ub = 0 THEN OutOfRange
         ELSE LET doc == At(index, ub - 1)
                  doc_end == doc.start_pos + doc.length + Length(sep)
              IN IF pos >= doc.start_pos /\ pos < doc_end THEN doc ELSE OutOfRange

\* DocumentStore::find_document_id
FindDocumentId(index, sep, pos) ==
    IF index = << >> THEN OutOfRange
    ELSE LET ub == UpperBoundByStart(index, pos) IN
         IF ub = 0 THEN OutOfRange
         ELSE LET it == ub - 1
                  doc == At(index, it)
                  doc_end == IF it # Len(index) - 1
                             THEN doc.start_pos + doc.length + Length(sep)
                             ELSE doc.start_pos + doc.length
              IN IF pos >= doc.start_pos /\ pos < doc_end THEN doc ELSE OutOfRange

(***************************************************************************)
(* NaiveSuffixBuilder: text_, suffix_array_, lcp_array_, is_built_.        *)
(***************************************************************************)
\* the rank sort_characters' char_index gives a character: its position among
\* the distinct characters of the text in Character order
CharIndex(text, ch) ==
    Cardinality({d \in {CharAt(text, i) : i \in 0..(Length(text) - 1)} : CharLess(d, ch)})

RECURSIVE CountLoop(_, _, _)
\* for i in [i, n): cnt[keys[i]]++
CountLoop(keys, i, cnt) ==
    IF i >= Len(keys) THEN cnt
    ELSE CountLoop(keys, i + 1, Put(cnt, At(keys, i), At(cnt, At(keys, i)) + 1))

RECURSIVE PrefixLoop(_, _)
\* for i in [i, size): cnt[i] += cnt[i-1]
PrefixLoop(cnt, i) ==
    IF i >= Len(cnt) THEN cnt
    ELSE PrefixLoop(Put(cnt, i, At(cnt, i) + At(cnt, i - 1)), i + 1)

RECURSIVE PlaceForwardNoDecrement(_, _, _, _)
\* mutation of PlaceForward: the counter of a character is read but not
\* decremented, so equal characters are placed into one slot
PlaceForwardNoDecrement(keys, i, cnt, p) ==
    IF i >= Len(keys) THEN p
    ELSE LET k == At(keys, i)
             slot == At(cnt, k) - 1
         IN PlaceForwardNoDecrement(keys, i + 1, cnt, Put(p, slot, i))

RECURSIVE PlaceForward(_, _, _, _)
\* sort_characters: for i in [i, n): p[--cnt[keys[i]]] = i
PlaceForward(keys, i, cnt, p) ==
    IF i >= Len(keys) THEN p
    ELSE LET k == At(keys, i)
             slot == At(cnt, k) - 1
         IN PlaceForward(keys, i + 1, Put(cnt, k, slot), Put(p, slot, i))

RECURSIVE CharClasses(_, _, _, _, _)
\* sort_characters: the equivalence classes of the first characters
CharClasses(text, p, i, c, classes) ==
    IF i >= Len(p) THEN [c |-> c, classes |-> classes]
    ELSE LET classes2 == IF CharAt(text, At(p, i)) # CharAt(text, At(p, i - 1))
                         THEN classes + 1 ELSE classes
         IN CharClasses(text, p, i + 1, Put(c, At(p, i), classes2 - 1), classes2)

\* NaiveSuffixBuilder::sort_characters: [p, c, classes]
SortCharacters(text) ==
    LET n == Length(text)
        distinct == {CharAt(text, i) : i \in 0..(n - 1)}
        keys == [i \in 1..n |-> CharIndex(text, CharAt(text, i - 1))]
        cnt == PrefixLoop(CountLoop(keys, 0, Fill(Cardinality(distinct), 0)), 1)
        p == PlaceForward(keys, 0, cnt, Fill(n, 0))
        cc == CharClasses(text, p, 1, Put(Fill(n, 0), At(p, 0), 0), 1)
    IN [p |-> p, c |-> cc.c, classes |-> cc.classes]

RECURSIVE PlaceBackward(_, _, _, _, _)
\* sort_doubled: for i = i down to 1: p[--cnt[c[pn[i-1]]]] = pn[i-1]
PlaceBackward(pn, c, i, cnt, p) ==
    IF i = 0 THEN p
    ELSE LET k == At(c, At(pn, i - 1))
             slot == At(cnt, k) - 1
         IN PlaceBackward(pn, c, i - 1, Put(cnt, k, slot), Put(p, slot, At(pn, i - 1)))

RECURSIVE PairClasses(_, _, _, _, _, _)
\* sort_doubled: the equivalence classes of the substrings of length 2k
PairClasses(k, p, c, i, cn, classes) ==
    LET n == Len(p) IN
    IF i >= n THEN [c |-> cn, classes |-> classes]
    ELSE LET cur == <<At(c, At(p, i)), At(c, (At(p, i) + k) % n)>>
             prev == <<At(c, At(p, i - 1)), At(c, (At(p, i - 1) + k) % n)>>
             classes2 == IF cur # prev THEN classes + 1 ELSE classes
         IN PairClasses(k, p, c, i + 1, Put(cn, At(p, i), classes2 - 1), classes2)

\* NaiveSuffixBuilder::sort_doubled: [p, c, classes]
SortDoubled(k, p, c, classes) ==
    LET n == Len(p)
        pn == [i \in 1..n |-> (p[i] + n - k) % n]
        keys == [i \in 1..n |-> At(c, pn[i])]
        cnt == PrefixLoop(CountLoop(keys, 0, Fill(classes, 0)), 1)
        p2 == PlaceBackward(pn, c, n, cnt, p)
        cc == PairClasses(k, p2, c, 1, Put(Fill(n, 0), At(p2, 0), 0), 1)
    IN [p |-> p2, c |-> cc.c, classes |-> cc.classes]

\* mutation of DoublingLoop: the loop test is inverted (len > n), so no
\* doubling pass runs and the order rests on the first code points
DoublingLoopSkipped(len, n, st) == st

RECURSIVE DoublingLoop(_, _, _)
\* build: while (len < text_.length()) { sort_doubled; len *= 2; }
DoublingLoop(len, n, st) ==
    IF len >= n THEN st
    ELSE DoublingLoop(len * 2, n, SortDoubled(len, st.p, st.c, st.classes))

\* NaiveSuffixBuilder::create_rank_array: rank starts zeroed and
\* rank[suffix_array_[i]] = i is assigned for i ascending, so the last
\* assignment to an entry stands
CreateRankArray(sa) ==
    [pos1 \in 1..Len(sa) |->
        LET writers == {i \in 1..Len(sa) : sa[i] = pos1 - 1}
        IN IF writers = {} THEN 0
           ELSE (CHOOSE i \in writers : \A other \in writers : other <= i) - 1]

RECURSIVE ExtendK(_, _, _, _)
\* the inner while loop of Kasai's algorithm
ExtendK(text, i, j, k) ==
    LET n == Length(text) IN
    IF i + k < n /\ j + k < n /\ CharAt(text, i + k) = CharAt(text, j + k)
    THEN ExtendK(text, i, j, k + 1)
    ELSE k

RECURSIVE KasaiLoopKeepsZeros(_, _, _, _, _, _)
\* mutation of KasaiLoop: an entry is written only when k is not zero, the
\* zeros being left to what resize put there
KasaiLoopKeepsZeros(text, sa, rank, i, k, lcp) ==
    LET n == Length(text) IN
    IF i >= n THEN lcp
    ELSE IF At(rank, i) = n - 1 THEN KasaiLoopKeepsZeros(text, sa, rank, i + 1, 0, lcp)
    ELSE LET j == At(sa, At(rank, i) + 1)
             k2 == ExtendK(text, i, j, k)
         IN KasaiLoopKeepsZeros(text, sa, rank, i + 1, IF k2 > 0 THEN k2 - 1 ELSE k2,
                                IF k2 > 0 THEN Put(lcp, At(rank, i), k2) ELSE lcp)

RECURSIVE KasaiLoop(_, _, _, _, _, _)
\* the for loop of build_lcp_array from text position i
KasaiLoop(text, sa, rank, i, k, lcp) ==
    LET n == Length(text) IN
    IF i >= n THEN lcp
    ELSE IF At(rank, i) = n - 1 THEN KasaiLoop(text, sa, rank, i + 1, 0, lcp)
    ELSE LET j == At(sa, At(rank, i) + 1)
             k2 == ExtendK(text, i, j, k)
         IN KasaiLoop(text, sa, rank, i + 1, IF k2 > 0 THEN k2 - 1 ELSE k2,
                      Put(lcp, At(rank, i), k2))

\* std::vector::resize: keeps the leading elements, zero-fills new ones
Resize(v, m) == [i \in 1..m |-> IF i <= Len(v) THEN v[i] ELSE 0]

\* NaiveSuffixBuilder::build_lcp_array
BuildLcpArray(text, sa, old_lcp) ==
    KasaiLoop(text, sa, CreateRankArray(sa), 0, 0, Resize(old_lcp, Length(text) - 1))

\* mutation of Build: is_built_ = true is missing after a successful build
BuildLeavesUnbuilt(b, text) ==
    IF Length(text) = 0
    THEN [builder |-> [b EXCEPT !.is_built_ = FALSE], threw |-> TRUE]
    ELSE LET sorted == DoublingLoop(1, Length(text), SortCharacters(text))
             lcp == BuildLcpArray(text, sorted.p, b.lcp_array_)
         IN [builder |-> [text_ |-> text, suffix_array_ |-> sorted.p,
                          lcp_array_ |-> lcp, is_built_ |-> FALSE],
             threw |-> FALSE]

\* mutation of Build: the catch block rethrows without is_built_ = false
BuildKeepsFlagOnFailure(b, text) ==
    IF Length(text) = 0
    THEN [builder |-> b, threw |-> TRUE]
    ELSE LET sorted == DoublingLoop(1, Length(text), SortCharacters(text))
             lcp == BuildLcpArray(text, sorted.p, b.lcp_array_)
         IN [builder |-> [text_ |-> text, suffix_array_ |-> sorted.p,
                          lcp_array_ |-> lcp, is_built_ |-> TRUE],
             threw |-> FALSE]

\* NaiveSuffixBuilder::build: the builder afterwards, and whether it threw
Build(b, text) ==
    IF Length(text) = 0
    THEN [builder |-> [b EXCEPT !.is_built_ = FALSE], threw |-> TRUE]
    ELSE LET sorted == DoublingLoop(1, Length(text), SortCharacters(text))
             lcp == BuildLcpArray(text, sorted.p, b.lcp_array_)
         IN [builder |-> [text_ |-> text, suffix_array_ |-> sorted.p,
                          lcp_array_ |-> lcp, is_built_ |-> TRUE],
             threw |-> FALSE]

\* mutation of GetArray: the is_built_ test is missing
GetArrayUnguarded(b) == [threw |-> FALSE, value |-> b.suffix_array_]

\* NaiveSuffixBuilder::get_array: whether it threw std::runtime_error, and
\* the array it returned otherwise
GetArray(b) ==
    IF ~b.is_built_ THEN [threw |-> TRUE, value |-> << >>]
    ELSE [threw |-> FALSE, value |-> b.suffix_array_]

\* NaiveSuffixBuilder::get_lcp_array
GetLcpArray(b) ==
    IF ~b.is_built_ THEN [threw |-> TRUE, value |-> << >>]
    ELSE [threw |-> FALSE, value |-> b.lcp_array_]

\* NaiveSuffixBuilder::get_text
GetText(b) == b.text_

\* NaiveSuffixBuilder::is_built
IsBuilt(b) == b.is_built_

(***************************************************************************)
(* DuplicateFinder                                                         *)
(***************************************************************************)
\* mutation of MatchLess: the length is compared ascending
MatchLessAscending(m, other) ==
    IF m.length # other.length THEN m.length < other.length
    ELSE IF m.doc1_id # other.doc1_id THEN m.doc1_id < other.doc1_id
    ELSE m.doc2_id < other.doc2_id

\* Match::operator<
MatchLess(m, other) ==
    IF m.length # other.length THEN m.length > other.length
    ELSE IF m.doc1_id # other.doc1_id THEN m.doc1_id < other.doc1_id
    ELSE m.doc2_id < other.doc2_id

RECURSIVE SortMatches(_)
\* std::sort of a set of matches with Match::operator<
SortMatches(S) ==
    IF S = {} THEN << >>
    ELSE LET first == CHOOSE m \in S : \A o \in S : ~MatchLess(o, m)
         IN <<first>> \o SortMatches(S \ {first})

\* the length of an adjacent pair's common prefix after clipping it to what
\* is left of each document from pos1 and pos2 (size_t arithmetic)
ActualLength(doc1, doc2, pos1, pos2, lcp_value) ==
    LET max_len1 == SubSizeT(doc1.length, pos1)
        max_len2 == SubSizeT(doc2.length, pos2)
        max_possible_length == Min(max_len1, max_len2)
    IN Min(lcp_value, max_possible_length)

\* mutation of MakeMatch: the documents are kept in suffix-array order
MakeMatchUnordered(doc1, doc2, pos1, pos2, actual_length) ==
    [doc1_id |-> doc1.sql_id, doc2_id |-> doc2.sql_id,
     start_pos1 |-> pos1, start_pos2 |-> pos2, length |-> actual_length]

\* the Match of an adjacent pair, the document with the smaller id first
MakeMatch(doc1, doc2, pos1, pos2, actual_length) ==
    IF doc1.sql_id < doc2.sql_id
    THEN [doc1_id |-> doc1.sql_id, doc2_id |-> doc2.sql_id,
          start_pos1 |-> pos1, start_pos2 |-> pos2, length |-> actual_length]
    ELSE [doc1_id |-> doc2.sql_id, doc2_id |-> doc1.sql_id,
          start_pos1 |-> pos2, start_pos2 |-> pos1, length |-> actual_length]

\* the key of best_matches: the two ids, smaller first
DocPair(doc1, doc2) ==
    <<Min(doc1.sql_id, doc2.sql_id), Max(doc1.sql_id, doc2.sql_id)>>

\* the candidate of one adjacent pair of suffixes; NoMatch when the step is
\* skipped (a lookup raised out_of_range, same document, or too short)
NoMatch == [skip |-> TRUE]

ScanStep(index, sep, sa, lcp, i, min_length) ==
    LET doc1 == FindDocumentId(index, sep, At(sa, i))
        doc2 == FindDocumentId(index, sep, At(sa, i + 1))
    IN IF doc1 = OutOfRange \/ doc2 = OutOfRange THEN NoMatch
       ELSE IF doc1.sql_id = doc2.sql_id THEN NoMatch
       ELSE LET pos1 == SubSizeT(At(sa, i), doc1.start_pos)
                pos2 == SubSizeT(At(sa, i + 1), doc2.start_pos)
                actual_length == ActualLength(doc1, doc2, pos1, pos2, At(lcp, i))
            IN IF actual_length < min_length THEN NoMatch
               ELSE [skip |-> FALSE, doc_pair |-> DocPair(doc1, doc2),
                     match |-> MakeMatch(doc1, doc2, pos1, pos2, actual_length)]

\* mutation of UpdateBest: a candidate of the same length replaces the stored one
UpdateBestOrEqual(best, doc_pair, match) ==
    IF doc_pair \notin DOMAIN best \/ match.length >= best[doc_pair].length
    THEN [key \in DOMAIN best \cup {doc_pair} |->
             IF key = doc_pair THEN match ELSE best[key]]
    ELSE best

\* best_matches[doc_pair] = match when absent or strictly longer
UpdateBest(best, doc_pair, match) ==
    IF doc_pair \notin DOMAIN best \/ match.length > best[doc_pair].length
    THEN [key \in DOMAIN best \cup {doc_pair} |->
             IF key = doc_pair THEN match ELSE best[key]]
    ELSE best

RECURSIVE ScanLoop(_, _, _, _, _, _, _)
\* the adjacent-pair loop of process_matches from index i
ScanLoop(index, sep, sa, lcp, i, min_length, best) ==
    IF i >= Len(lcp) THEN best
    ELSE LET step == ScanStep(index, sep, sa, lcp, i, min_length) IN
         ScanLoop(index, sep, sa, lcp, i + 1, min_length,
                  IF step.skip THEN best
                  ELSE UpdateBest(best, step.doc_pair, step.match))

\* mutation of ProcessMatches: the conversion keeps only the matches longer
\* than min_length
ProcessMatchesStrictFilter(index, sep, b, min_length) ==
    LET best_matches == ScanLoop(index, sep, b.suffix_array_, b.lcp_array_, 0,
                                 min_length, << >>)
        kept == {best_matches[key] : key \in
                    {k \in DOMAIN best_matches : best_matches[k].length > min_length}}
    IN SortMatches(kept)

\* DuplicateFinder::process_matches
ProcessMatches(index, sep, b, min_length) ==
    LET best_matches == ScanLoop(index, sep, b.suffix_array_, b.lcp_array_, 0,
                                 min_length, << >>)
        kept == {best_matches[key] : key \in
                    {k \in DOMAIN best_matches : best_matches[k].length >= min_length}}
    IN SortMatches(kept)

\* mutation of FindDuplicatesWith: the early return on an empty text is missing
FindDuplicatesWithoutGuard(index, sep, text, b, built, min_length) ==
    IF built.threw THEN [builder |-> built.builder, result |-> << >>, threw |-> TRUE]
    ELSE [builder |-> built.builder, threw |-> FALSE,
          result |-> ProcessMatches(index, sep, built.builder, min_length)]

\* DuplicateFinder::find_duplicates, built being what suffix_builder_->build(text)
\* yields when it is called: the builder afterwards and the result
FindDuplicatesWith(index, sep, text, b, built, min_length) ==
    IF Length(text) = 0 THEN [builder |-> b, result |-> << >>, threw |-> FALSE]
    ELSE IF built.threw THEN [builder |-> built.builder, result |-> << >>, threw |-> TRUE]
    ELSE [builder |-> built.builder, threw |-> FALSE,
          result |-> ProcessMatches(index, sep, built.builder, min_length)]

\* DuplicateFinder::find_duplicates
FindDuplicatesOf(index, sep, text, b, min_length) ==
    FindDuplicatesWith(index, sep, text, b, Build(b, text), min_length)

(***************************************************************************)
(* The state machine: a store is constructed with a separator, documents   *)
(* are added, positions are looked up, and the finder is run on the store. *)
(***************************************************************************)
\* the document bodies add_document is called with
Contents == {MkUTF8String(Flatten(cps)) : cps \in DocBodies}

\* UTF8String()
EmptyString == [data_ |-> << >>, char_pos_ |-> << >>, char_count_ |-> 0]

Init ==
    /\ separator_ \in {MkUTF8String(Flatten(s)) : s \in Separators}
    /\ concatenated_text_ = MkUTF8String(<< >>)
    /\ documents_ = << >>
    /\ pos_index_ = << >>
    /\ suffix_builder_ = [text_ |-> EmptyString, suffix_array_ |-> << >>,
                          lcp_array_ |-> << >>, is_built_ |-> FALSE]
    /\ history = << >>
    /\ last_built = << >>
    /\ ret = [op |-> "none"]

\* mutation of NewPosition: the start is taken after the body is appended
NewPositionAfterAppend(text, content, sql_id) ==
    [sql_id |-> sql_id, start_pos |-> Length(text) + Length(content),
     length |-> Length(content)]

\* the DocumentPosition add_document records for a new document
NewPosition(text, content, sql_id) ==
    [sql_id |-> sql_id, start_pos |-> Length(text), length |-> Length(content)]

\* DocumentStore::add_document(content, sql_id)
AddDocument(content, sql_id) ==
    /\ Length(concatenated_text_) + Length(content) + Length(separator_) <= MaxTextLen
    /\ IF FindBySqlId(documents_, sql_id) # Len(documents_)
       THEN /\ ret' = [op |-> "add_document", sql_id |-> sql_id, value |-> FALSE]
            /\ UNCHANGED <<storeVars, history>>
       ELSE LET doc_pos == NewPosition(concatenated_text_, content, sql_id)
            IN /\ documents_' = SetInsert(documents_, doc_pos)
               /\ pos_index_' = Append(pos_index_, doc_pos)
               /\ concatenated_text_' = Concat(Concat(concatenated_text_, content), separator_)
               /\ history' = Append(history, [sql_id |-> sql_id, content |-> content,
                                              before |-> concatenated_text_])
               /\ ret' = [op |-> "add_document", sql_id |-> sql_id, value |-> TRUE]
               /\ UNCHANGED separator_
    /\ UNCHANGED <<suffix_builder_, last_built>>

\* DocumentStore::find_document_id(pos)
FindDocument(pos) ==
    /\ ret' = [op |-> "find_document_id", pos |-> pos,
               value |-> FindDocumentId(pos_index_, separator_, pos)]
    /\ UNCHANGED <<storeVars, suffix_builder_, history, last_built>>

\* DuplicateFinder::find_duplicates(store, min_length); built is the outcome
\* of its build call on the store's text (the same for every min_length)
FindDuplicates(min_length, built) ==
    LET found == FindDuplicatesWith(pos_index_, separator_, concatenated_text_,
                                    suffix_builder_, built, min_length)
    IN /\ suffix_builder_' = found.builder
       /\ last_built' = IF Length(concatenated_text_) = 0 \/ built.threw
                         THEN last_built
                         ELSE <<[text |-> concatenated_text_,
                                 suffix_array_ |-> built.builder.suffix_array_,
                                 lcp_array_ |-> built.builder.lcp_array_]>>
       /\ ret' = [op |-> "find_duplicates", min_length |-> min_length,
                  threw |-> found.threw, value |-> found.result]
       /\ UNCHANGED <<storeVars, history>>

AddAny == \E content \in Contents, sql_id \in SqlIds : AddDocument(content, sql_id)

LookupAny == \E pos \in 0..(MaxTextLen + 1) : FindDocument(pos)

FindAny ==
    LET built == Build(suffix_builder_, concatenated_text_) IN
    \E min_length \in 0..MaxMinLength : FindDuplicates(min_length, built)

Next == AddAny \/ LookupAny \/ FindAny

Spec == Init /\ [][Next]_vars

\* the store alone: insertions and lookups
NextStore == AddAny \/ LookupAny

SpecStore == Init /\ [][NextStore]_vars

\* a store being filled and handed to the finder
NextFinder == AddAny \/ FindAny

SpecFinder == Init /\ [][NextFinder]_vars

(***************************************************************************)
(* One finder used on several stores: between its runs on the store being  *)
(* filled it is run on other stores, whose texts are shorter or longer.    *)
(***************************************************************************)
\* NaiveSuffixBuilder as the finder's constructor obtains it
FreshBuilder == [text_ |-> EmptyString, suffix_array_ |-> << >>,
                 lcp_array_ |-> << >>, is_built_ |-> FALSE]

RECURSIVE StoreOf(_, _)
\* the store with the given separator after add_document(bodies[i], i) for
\* i = 1 .. Len(bodies): its by-start view and its text
StoreOf(sep, bodies) ==
    IF bodies = << >>
    THEN [separator_ |-> sep, pos_index_ |-> << >>,
          concatenated_text_ |-> MkUTF8String(<< >>)]
    ELSE LET before == StoreOf(sep, SubSeq(bodies, 1, Len(bodies) - 1))
             content == MkUTF8String(Flatten(bodies[Len(bodies)]))
         IN [separator_ |-> sep,
             pos_index_ |-> Append(before.pos_index_,
                                   NewPosition(before.concatenated_text_, content,
                                               Len(bodies))),
             concatenated_text_ |-> Concat(Concat(before.concatenated_text_, content),
                                           sep)]

\* the other stores: an empty one and one of a single empty document (text
\* "$") with the default separator, and one of three documents of one
\* repeated code point with an empty separator (eight code points of text)
OtherStores ==
    {StoreOf(MkUTF8String(Dollar), << >>),
     StoreOf(MkUTF8String(Dollar), << << >> >>),
     StoreOf(MkUTF8String(<< >>), <<<<EAcute, EAcute, EAcute>>, <<EAcute, EAcute>>,
                                    <<EAcute, EAcute, EAcute>>>>)}

\* find_duplicates(store, min_length) of the same finder on another store;
\* built is the outcome of its build call on that store's text
FindElsewhere(store, min_length, built) ==
    LET found == FindDuplicatesWith(store.pos_index_, store.separator_,
                                    store.concatenated_text_, suffix_builder_, built,
                                    min_length)
    IN /\ suffix_builder_' = found.builder
       /\ last_built' = IF Length(store.concatenated_text_) = 0 \/ built.threw
                         THEN last_built
                         ELSE <<[text |-> store.concatenated_text_,
                                 suffix_array_ |-> built.builder.suffix_array_,
                                 lcp_array_ |-> built.builder.lcp_array_]>>
       /\ ret' = [op |-> "find_duplicates(other store)", min_length |-> min_length,
                  store |-> store, threw |-> found.threw, value |-> found.result]
       /\ UNCHANGED <<storeVars, history>>

ElsewhereAny ==
    \E store \in OtherStores :
        LET built == Build(suffix_builder_, store.concatenated_text_) IN
        \E min_length \in {0, MaxMinLength} : FindElsewhere(store, min_length, built)

\* the ids and bodies of the documents of the store being filled
ReuseIds == {1, 2}
ReuseBodies == {<<EAcute>>, <<EAcute, EAcute>>, <<Dollar, EAcute>>}

AddFew ==
    \E cps \in ReuseBodies, sql_id \in ReuseIds :
        AddDocument(MkUTF8String(Flatten(cps)), sql_id)

\* find_duplicates(store, min_length) of the finder on the store being
\* filled; before is the builder the finder held when it was called
\* (observation)
FindReused(min_length, built) ==
    LET found == FindDuplicatesWith(pos_index_, separator_, concatenated_text_,
                                    suffix_builder_, built, min_length)
    IN /\ suffix_builder_' = found.builder
       /\ last_built' = IF Length(concatenated_text_) = 0 \/ built.threw
                         THEN last_built
                         ELSE <<[text |-> concatenated_text_,
                                 suffix_array_ |-> built.builder.suffix_array_,
                                 lcp_array_ |-> built.builder.lcp_array_]>>
       /\ ret' = [op |-> "find_duplicates(reused finder)", min_length |-> min_length,
                  before |-> suffix_builder_, threw |-> found.threw,
                  value |-> found.result]
       /\ UNCHANGED <<storeVars, history>>

ReusedAny ==
    LET built == Build(suffix_builder_, concatenated_text_) IN
    \E min_length \in 0..MaxMinLength : FindReused(min_length, built)

\* a store with the default separator and a finder as constructed
InitReuse == Init /\ separator_ = MkUTF8String(Dollar)

NextReuse == AddFew \/ ReusedAny \/ ElsewhereAny

SpecReuse == InitReuse /\ [][NextReuse]_vars

(***************************************************************************)
(* The builder on its own: build is called with texts of its client's      *)
(* choosing, and the arrays and the flag are read.                         *)
(***************************************************************************)
\* the length up to which the texts given to build are enumerated
MaxBuildLen == 4

LetterA == <<97>>

\* every text of $ and e-acute below the bound: the empty text, texts in
\* which the final code point repeats, texts that end in a unique code point
BinaryTexts == UNION {[1..n -> {Dollar, EAcute}] : n \in 0..(MaxBuildLen - 1)}

\* words of a and e-acute closed by the only $ of the text, as the texts
\* a$, abab$ and aaa$ of the builder's tests ($ < a < e-acute in byte order)
TerminatedTexts ==
    {Append(w, Dollar) :
        w \in UNION {[1..n -> {LetterA, EAcute}] : n \in 1..(MaxBuildLen - 1)}}

\* texts of stores with separator $: of two equal documents, and of six
\* documents, four of them empty
RepeatingTexts ==
    {<<EAcute, Dollar, EAcute, Dollar>>,
     <<Dollar, Dollar, EAcute, Dollar, Dollar, Dollar, EAcute, Dollar>>,
     <<EAcute, Dollar, Dollar, Dollar, EAcute, Dollar, Dollar, Dollar>>}

\* texts closed by a unique $ in which a pair of code points repeats, as
\* abab$ and abcab$ of the builder's tests: suffixes that agree on their
\* first two code points
PatternTexts ==
    {<<LetterA, EAcute, LetterA, EAcute, Dollar>>,
     <<EAcute, LetterA, EAcute, LetterA, Dollar>>,
     <<EAcute, EAcute, LetterA, EAcute, EAcute, Dollar>>}

\* the texts given to build, as sequences of code points
BuildTexts == BinaryTexts \cup TerminatedTexts \cup PatternTexts \cup RepeatingTexts

\* NaiveSuffixBuilder::build(text)
BuildCall(text) ==
    LET built == Build(suffix_builder_, text)
    IN /\ suffix_builder_' = built.builder
       /\ last_built' = IF built.threw THEN last_built
                         ELSE <<[text |-> text,
                                 suffix_array_ |-> built.builder.suffix_array_,
                                 lcp_array_ |-> built.builder.lcp_array_]>>
       /\ ret' = [op |-> "build", text |-> text, threw |-> built.threw,
                  value |-> ~built.threw]
       /\ UNCHANGED <<storeVars, history>>

\* NaiveSuffixBuilder::get_array()
GetArrayCall ==
    /\ ret' = [op |-> "get_array", threw |-> GetArray(suffix_builder_).threw,
               value |-> GetArray(suffix_builder_).value]
    /\ UNCHANGED <<storeVars, suffix_builder_, history, last_built>>

\* NaiveSuffixBuilder::get_lcp_array()
GetLcpArrayCall ==
    /\ ret' = [op |-> "get_lcp_array", threw |-> GetLcpArray(suffix_builder_).threw,
               value |-> GetLcpArray(suffix_builder_).value]
    /\ UNCHANGED <<storeVars, suffix_builder_, history, last_built>>

\* NaiveSuffixBuilder::is_built()
IsBuiltCall ==
    /\ ret' = [op |-> "is_built", value |-> IsBuilt(suffix_builder_)]
    /\ UNCHANGED <<storeVars, suffix_builder_, history, last_built>>

BuildAny == \E cps \in BuildTexts : BuildCall(MkUTF8String(Flatten(cps)))

\* a builder as the factory hands it out
InitBuilder == Init /\ separator_ = MkUTF8String(Dollar)

NextBuilder == BuildAny \/ GetArrayCall \/ GetLcpArrayCall \/ IsBuiltCall

SpecBuilder == InitBuilder /\ [][NextBuilder]_vars

(***************************************************************************)
(* UTF8String on its own: a string is constructed from the encoding of a   *)
(* sequence of Unicode scalar values.                                      *)
(***************************************************************************)
\* the most scalar values in one constructed string
MaxCodePoints == 2

\* scalar values at the ends of the one- to four-byte ranges, next to the
\* surrogate gap, and inside the ranges
ScalarValues ==
    {36, 127, 128, 233, 2047, 2048, 8364, 55295, 57344, 65535, 65536, 128512, 1114111}

\* the UTF-8 encoding of a scalar value: the bit patterns 0xxxxxxx,
\* 110xxxxx 10xxxxxx, 1110xxxx 10xxxxxx 10xxxxxx and
\* 11110xxx 10xxxxxx 10xxxxxx 10xxxxxx that indexString tells apart
Encode(cp) ==
    IF cp < 128 THEN <<cp>>
    ELSE IF cp < 2048 THEN <<192 + (cp \div 64), 128 + (cp % 64)>>
    ELSE IF cp < 65536
         THEN <<224 + (cp \div 4096), 128 + ((cp \div 64) % 64), 128 + (cp % 64)>>
    ELSE <<240 + (cp \div 262144), 128 + ((cp \div 4096) % 64),
           128 + ((cp \div 64) % 64), 128 + (cp % 64)>>

\* the bytes of a sequence of scalar values
EncodeAll(scalars) == Flatten([i \in 1..Len(scalars) |-> Encode(scalars[i])])

\* the sequences of scalar values strings are constructed from
ScalarInputs == UNION {[1..n -> ScalarValues] : n \in 0..MaxCodePoints}

\* a client holds the scalar values it is about to encode and construct
InitUtf8 ==
    /\ separator_ = MkUTF8String(Dollar)
    /\ concatenated_text_ = MkUTF8String(<< >>)
    /\ documents_ = << >>
    /\ pos_index_ = << >>
    /\ suffix_builder_ = [text_ |-> EmptyString, suffix_array_ |-> << >>,
                          lcp_array_ |-> << >>, is_built_ |-> FALSE]
    /\ history = << >>
    /\ last_built = << >>
    /\ \E scalars \in ScalarInputs : ret = [op |-> "input", scalars |-> scalars]

\* UTF8String::UTF8String(const std::string&) on the encoded input
Construct ==
    /\ ret.op = "input"
    /\ ret' = [op |-> "UTF8String", scalars |-> ret.scalars,
               value |-> MkUTF8String(EncodeAll(ret.scalars))]
    /\ UNCHANGED <<storeVars, suffix_builder_, history, last_built>>

NextUtf8 == Construct

SpecUtf8 == InitUtf8 /\ [][NextUtf8]_vars

(***************************************************************************)
(* UTF8String on its own: a string is constructed from raw bytes, valid    *)
(* UTF-8 or not.                                                           *)
(***************************************************************************)
\* the most bytes in one raw input
MaxRawBytes == 4

\* bytes at the ends of the ranges indexString tells apart: ASCII, the
\* continuation bytes 0x80 0x8F 0x90 0x9F 0xA0 0xBF, the two-byte leaders
\* 0xC0 0xC1 0xC2, the three-byte leaders 0xE0 0xED, the four-byte leaders
\* 0xF0 0xF4 0xF5, and 0xF8 0xFF
RawBytes == {36, 128, 143, 144, 159, 160, 191, 192, 193, 194, 224, 237,
             240, 244, 245, 248, 255}

\* the byte sequences strings are constructed from
RawInputs == UNION {[1..n -> RawBytes] : n \in 0..MaxRawBytes}

\* a client holds the bytes it is about to construct a string from
InitRaw ==
    /\ separator_ = MkUTF8String(Dollar)
    /\ concatenated_text_ = MkUTF8String(<< >>)
    /\ documents_ = << >>
    /\ pos_index_ = << >>
    /\ suffix_builder_ = [text_ |-> EmptyString, suffix_array_ |-> << >>,
                          lcp_array_ |-> << >>, is_built_ |-> FALSE]
    /\ history = << >>
    /\ last_built = << >>
    /\ \E bytes \in RawInputs : ret = [op |-> "raw", bytes |-> bytes]

\* UTF8String::UTF8String(const std::string&) on the raw input
ConstructRaw ==
    /\ ret.op = "raw"
    /\ ret' = [op |-> "UTF8String(bytes)", bytes |-> ret.bytes,
               value |-> MkUTF8String(ret.bytes)]
    /\ UNCHANGED <<storeVars, suffix_builder_, history, last_built>>

NextRaw == ConstructRaw

SpecRaw == InitRaw /\ [][NextRaw]_vars

(***************************************************************************)
(* UTF8String::substr on strings of one- to four-byte code points, with    *)
(* start and length anywhere in size_t.                                    *)
(***************************************************************************)
\* the most code points in a string substr is called on
MaxSubstrLen == 3

\* one scalar value of each encoded width
WidthScalars == {36, 233, 8364, 128512}

\* the strings substr is called on
SubstrStrings ==
    {MkUTF8String(EncodeAll(scalars)) :
        scalars \in UNION {[1..n -> WidthScalars] : n \in 0..MaxSubstrLen}}

\* the largest size_t
SizeMax == SizeTModulus - 1

\* the start and length substr is called with: around the length of the
\* string and at the top of size_t
SubstrIndices == (0..(MaxSubstrLen + 1)) \cup {SizeMax - 1, SizeMax}

\* a client holds the string it is about to take substrings of
InitSubstr ==
    /\ separator_ = MkUTF8String(Dollar)
    /\ concatenated_text_ = MkUTF8String(<< >>)
    /\ documents_ = << >>
    /\ pos_index_ = << >>
    /\ suffix_builder_ = [text_ |-> EmptyString, suffix_array_ |-> << >>,
                          lcp_array_ |-> << >>, is_built_ |-> FALSE]
    /\ history = << >>
    /\ last_built = << >>
    /\ \E s \in SubstrStrings : ret = [op |-> "string", s |-> s]

\* s.substr(start, length); a read past char_pos_ yields any offset
SubstrCall ==
    \E start \in SubstrIndices, length \in SubstrIndices :
        \E out_of_bounds \in 0..(Len(ret.s.data_) + 1) :
            /\ ret.op = "string"
            /\ ret' = [op |-> "substr", s |-> ret.s, start |-> start, length |-> length,
                       value |-> Substr(ret.s, start, length, out_of_bounds)]
            /\ UNCHANGED <<storeVars, suffix_builder_, history, last_built>>

NextSubstr == SubstrCall

SpecSubstr == InitSubstr /\ [][NextSubstr]_vars

(***************************************************************************)
(* Two UTF8Strings: they are joined, appended in place and compared.       *)
(***************************************************************************)
\* the most code points in each of the two strings
MaxPairLen == 2

\* scalar values of one to four bytes, among them the ends of the two-byte
\* range and the starts of the three- and four-byte ranges
PairScalars == {36, 128, 2047, 2048, 65536}

\* the scalar values of a string of the pair
PairInputs == UNION {[1..n -> PairScalars] : n \in 0..MaxPairLen}

\* the UTF8String constructed from the encoding of scalar values
StringOf(scalars) == MkUTF8String(EncodeAll(scalars))

\* a client holds two strings, each given by its scalar values
InitPair ==
    /\ separator_ = MkUTF8String(Dollar)
    /\ concatenated_text_ = MkUTF8String(<< >>)
    /\ documents_ = << >>
    /\ pos_index_ = << >>
    /\ suffix_builder_ = [text_ |-> EmptyString, suffix_array_ |-> << >>,
                          lcp_array_ |-> << >>, is_built_ |-> FALSE]
    /\ history = << >>
    /\ last_built = << >>
    /\ \E a \in PairInputs, b \in PairInputs : ret = [op |-> "pair", a |-> a, b |-> b]

\* a + b
ConcatCall ==
    /\ ret.op = "pair"
    /\ ret' = [op |-> "operator+", a |-> ret.a, b |-> ret.b,
               value |-> Concat(StringOf(ret.a), StringOf(ret.b))]
    /\ UNCHANGED <<storeVars, suffix_builder_, history, last_built>>

\* a += b, b another object than a (of equal content or not)
AppendCall ==
    /\ ret.op = "pair"
    /\ ret' = [op |-> "operator+=", a |-> ret.a, b |-> ret.b,
               value |-> PlusAssign(StringOf(ret.a), StringOf(ret.b), FALSE)]
    /\ UNCHANGED <<storeVars, suffix_builder_, history, last_built>>

\* a += a
SelfAppendCall ==
    /\ ret.op = "pair"
    /\ ret' = [op |-> "operator+=(self)", a |-> ret.a, b |-> ret.a,
               value |-> PlusAssign(StringOf(ret.a), StringOf(ret.a), TRUE)]
    /\ UNCHANGED <<storeVars, suffix_builder_, history, last_built>>

\* a += std::string holding the bytes of b
AppendBytesCall ==
    /\ ret.op = "pair"
    /\ ret' = [op |-> "operator+=(std::string)", a |-> ret.a, b |-> ret.b,
               value |-> PlusAssignBytes(StringOf(ret.a), EncodeAll(ret.b))]
    /\ UNCHANGED <<storeVars, suffix_builder_, history, last_built>>

\* a == b and a < b
CompareCall ==
    /\ ret.op = "pair"
    /\ ret' = [op |-> "compare", a |-> ret.a, b |-> ret.b,
               equal |-> StringEq(StringOf(ret.a), StringOf(ret.b)),
               less |-> StringLess(StringOf(ret.a), StringOf(ret.b))]
    /\ UNCHANGED <<storeVars, suffix_builder_, history, last_built>>

\* a[i] == b[j] and a[i] < b[j]
CharCompareCall ==
    \E i \in 0..(MaxPairLen - 1), j \in 0..(MaxPairLen - 1) :
        /\ ret.op = "pair" /\ i < Len(ret.a) /\ j < Len(ret.b)
        /\ ret' = [op |-> "compare(Character)", a |-> ret.a, b |-> ret.b,
                   i |-> i, j |-> j,
                   equal |-> CharEq(CharAt(StringOf(ret.a), i), CharAt(StringOf(ret.b), j)),
                   less |-> CharLess(CharAt(StringOf(ret.a), i), CharAt(StringOf(ret.b), j))]
        /\ UNCHANGED <<storeVars, suffix_builder_, history, last_built>>

NextPair ==
    \/ ConcatCall \/ AppendCall \/ SelfAppendCall \/ AppendBytesCall
    \/ CompareCall \/ CharCompareCall

SpecPair == InitPair /\ [][NextPair]_vars

(***************************************************************************)
(* The driver: main(argc, argv).  args is argv without argv[0], so that    *)
(* argv[k] is args[k] and argc = Len(args) + 1.                            *)
(***************************************************************************)
\* the most arguments after the program name
MaxArgs == 6

\* the words of a command line: the two spellings of the flag, and a
\* database path, an output path, a domain and a threshold
Flags == {"-v", "--verbose"}
ArgWords == Flags \cup {"db", "out", "dom", "7"}

\* std::stoull: the value of a word that starts with digits,
\* std::invalid_argument for the other words
Stoull(word) ==
    IF word = "7" THEN [threw |-> FALSE, value |-> 7]
    ELSE [threw |-> TRUE, value |-> 0]

\* what main binds when it does not reach the parsing, or stoull throws
Unbound == [bound |-> FALSE, db_path |-> "", output_path |-> "", domain |-> "",
            threshold |-> 0]

\* main: the exit status, the verbose flag and the bound positionals;
\* pipeline_ok tells whether the database, the finder and the output file
\* go through without an exception or a failed validation
Main(args, pipeline_ok) ==
    LET argc == Len(args) + 1 IN
    IF argc < 5 \/ argc > 6
    THEN [exit |-> 1, verbose |-> FALSE, args |-> Unbound]
    ELSE LET verbose == \E i \in 1..(argc - 1) : args[i] \in Flags
             threshold == Stoull(args[argc - 1])
         IN IF threshold.threw
            THEN [exit |-> 1, verbose |-> verbose, args |-> Unbound]
            ELSE [exit |-> IF pipeline_ok THEN 0 ELSE 1, verbose |-> verbose,
                  args |-> [bound |-> TRUE, db_path |-> args[argc - 4],
                            output_path |-> args[argc - 3], domain |-> args[argc - 2],
                            threshold |-> threshold.value]]

\* the command lines the driver is started with
CommandLines == UNION {[1..n -> ArgWords] : n \in 3..MaxArgs}

\* a shell holds the command line it is about to start the driver with
InitDriver ==
    /\ separator_ = MkUTF8String(Dollar)
    /\ concatenated_text_ = MkUTF8String(<< >>)
    /\ documents_ = << >>
    /\ pos_index_ = << >>
    /\ suffix_builder_ = [text_ |-> EmptyString, suffix_array_ |-> << >>,
                          lcp_array_ |-> << >>, is_built_ |-> FALSE]
    /\ history = << >>
    /\ last_built = << >>
    /\ \E args \in CommandLines : ret = [op |-> "command line", args |-> args]

\* one run of the driver
MainCall ==
    \E pipeline_ok \in BOOLEAN :
        /\ ret.op = "command line"
        /\ ret' = [op |-> "main", args |-> ret.args, pipeline_ok |-> pipeline_ok,
                   value |-> Main(ret.args, pipeline_ok)]
        /\ UNCHANGED <<storeVars, suffix_builder_, history, last_built>>

NextDriver == MainCall

SpecDriver == InitDriver /\ [][NextDriver]_vars

(***************************************************************************)
(* SQLiteHandler::createDocumentStore.  A name is a sequence of            *)
(* characters; a query is the sequence of the pieces it is concatenated    *)
(* from.  The database is the environment: it answers each query.          *)
(***************************************************************************)
\* the most characters in a table or column name
MaxNameLen == 2

\* the characters names are made of: a letter, a digit, the underscore,
\* and two characters no name may hold
NameChars == {"t", "1", "_", "-", "'"}

\* the table and column names createDocumentStore is called with
Names == UNION {[1..n -> NameChars] : n \in 0..MaxNameLen}

\* the filter values createDocumentStore is called with
FilterValues == {<<"v">>, <<"'">>}

Letters == {"a", "b", "c", "d", "e", "f", "g", "h", "i", "j", "k", "l", "m", "n", "o", "p", "q", "r", "s", "t", "u", "v", "w", "x", "y", "z",
            "A", "B", "C", "D", "E", "F", "G", "H", "I", "J", "K", "L", "M", "N", "O", "P", "Q", "R", "S", "T", "U", "V", "W", "X", "Y", "Z"}
Digits == {"0", "1", "2", "3", "4", "5", "6", "7", "8", "9"}

\* isValidName: the regular expression ^[A-Za-z_][A-Za-z0-9_]*$
IsValidName(name) ==
    /\ Len(name) >= 1
    /\ name[1] \in Letters \cup {"_"}
    /\ \A i \in 2..Len(name) : name[i] \in Letters \cup Digits \cup {"_"}

RECURSIVE SanitizeInput(_)
\* SQLiteHandler::sanitizeInput: every ' becomes ''
SanitizeInput(input) ==
    IF input = << >> THEN << >>
    ELSE (IF Head(input) = "'" THEN <<"'", "'">> ELSE <<Head(input)>>)
             \o SanitizeInput(Tail(input))

\* the size query of createDocumentStore
SizeQuery(table_name, filter_column, content_column, filter_value) ==
    <<"SELECT COUNT(*), SUM(LENGTH(">> \o content_column \o <<")) FROM ">>
        \o table_name \o <<" WHERE ">> \o filter_column
        \o <<" = '">> \o filter_value \o <<"'">>

\* SQLiteHandler::buildQuery: SQLiteError on an invalid name, the SELECT
\* otherwise
BuildQuery(table_name, filter_column, content_column, filter_value) ==
    IF ~IsValidName(table_name) \/ ~IsValidName(filter_column)
           \/ ~IsValidName(content_column)
    THEN [threw |-> TRUE, query |-> << >>]
    ELSE [threw |-> FALSE,
          query |-> <<"SELECT ">> \o SanitizeInput(content_column)
                        \o <<", rowid FROM ">> \o SanitizeInput(table_name)
                        \o <<" WHERE ">> \o SanitizeInput(filter_column)
                        \o <<" = '">> \o SanitizeInput(filter_value) \o <<"'">>]

\* what the database does with a query handed to sqlite3_prepare_v2
DbOutcomes == {"prepare fails", "step fails", "done"}

\* SQLiteHandler::executeQuery: whether it threw SQLiteError, and what the
\* database was handed: the query, the names it is built from, and how far
\* it got
ExecuteQuery(query, names, outcome) ==
    [threw |-> outcome # "done",
     seen |-> [query |-> query, names |-> names,
               reached |-> IF outcome = "prepare fails" THEN "sqlite3_prepare_v2"
                           ELSE "sqlite3_step"]]

\* the rows the SELECT yields: none, or one document with rowid 1
RowSets == {<< >>, <<<<EAcute>>>>}

\* SQLiteHandler::createDocumentStore: whether it threw SQLiteError, the
\* store it returned otherwise, and what the database was handed, in order
CreateDocumentStore(table_name, filter_column, content_column, filter_value, size_outcome, select_outcome, rows) ==
    LET names == {table_name, filter_column, content_column}
        none == StoreOf(MkUTF8String(Dollar), << >>)
        size == ExecuteQuery(SizeQuery(table_name, filter_column, content_column,
                                       filter_value), names, size_outcome)
        built == BuildQuery(table_name, filter_column, content_column, filter_value)
        select == ExecuteQuery(built.query, names, select_outcome)
    IN IF size.threw THEN [threw |-> TRUE, store |-> none, database |-> <<size.seen>>]
       ELSE IF built.threw
            THEN [threw |-> TRUE, store |-> none, database |-> <<size.seen>>]
       ELSE IF select.threw
            THEN [threw |-> TRUE, store |-> none,
                  database |-> <<size.seen, select.seen>>]
       ELSE [threw |-> FALSE, store |-> StoreOf(MkUTF8String(Dollar), rows),
             database |-> <<size.seen, select.seen>>]

\* a client holds the names and the value it is about to call
\* createDocumentStore with
InitSql ==
    /\ separator_ = MkUTF8String(Dollar)
    /\ concatenated_text_ = MkUTF8String(<< >>)
    /\ documents_ = << >>
    /\ pos_index_ = << >>
    /\ suffix_builder_ = [text_ |-> EmptyString, suffix_array_ |-> << >>,
                          lcp_array_ |-> << >>, is_built_ |-> FALSE]
    /\ history = << >>
    /\ last_built = << >>
    /\ \E table_name \in Names, filter_column \in Names, content_column \in Names :
           \E filter_value \in FilterValues :
               ret = [op |-> "names", table_name |-> table_name,
                      filter_column |-> filter_column,
                      content_column |-> content_column, filter_value |-> filter_value]

\* handler.createDocumentStore(table_name, filter_column, content_column,
\* filter_value)
CreateDocumentStoreCall ==
    \E size_outcome \in DbOutcomes, select_outcome \in DbOutcomes, rows \in RowSets :
        /\ ret.op = "names"
        /\ ret' = [op |-> "createDocumentStore", table_name |-> ret.table_name,
                   filter_column |-> ret.filter_column,
                   content_column |-> ret.content_column,
                   filter_value |-> ret.filter_value,
                   value |-> CreateDocumentStore(ret.table_name, ret.filter_column,
                                                 ret.content_column, ret.filter_value,
                                                 size_outcome, select_outcome, rows)]
        /\ UNCHANGED <<storeVars, suffix_builder_, history, last_built>>

NextSql == CreateDocumentStoreCall

SpecSql == InitSql /\ [][NextSql]_vars

(***************************************************************************)
(* Vocabulary of the properties.                                           *)
(***************************************************************************)
IdsOf(docs) == {docs[i].sql_id : i \in 1..Len(docs)}

\* the i-th accepted document: its id and its code points
DocId(i) == history[i].sql_id
DocText(i) == CodePoints(history[i].content)

\* the i-th accepted document, looked up by id in the by-id view
RecordOf(i) == CHOOSE d \in {documents_[k] : k \in 1..Len(documents_)} : d.sql_id = DocId(i)

\* the length of the longest common substring of two code-point sequences
LongestCommon(a, b) ==
    LET common == {k \in 0..Min(Len(a), Len(b)) :
                      \E i \in 0..(Len(a) - k), j \in 0..(Len(b) - k) :
                          SubSeq(a, i + 1, i + k) = SubSeq(b, j + 1, j + k)}
    IN CHOOSE k \in common : \A other \in common : other <= k

\* the last call was find_duplicates and it returned
Found == ret.op = "find_duplicates" /\ ~ret.threw

\* the returned matches of the i-th and j-th accepted documents
MatchesOf(i, j) ==
    {k \in 1..Len(ret.value) :
        /\ ret.value[k].doc1_id = Min(DocId(i), DocId(j))
        /\ ret.value[k].doc2_id = Max(DocId(i), DocId(j))}

\* the store is separator-terminated in the sense of the suffix index: its
\* separator is one code point and occurs in no document
CleanStore ==
    /\ Length(separator_) = 1
    /\ \A i \in 1..Len(history) : \A k \in 1..Len(DocText(i)) :
           DocText(i)[k] # CharAt(separator_, 0)

\* C1: for every pair of distinct documents whose longest common substring
\* has length L >= min_length, find_duplicates returns exactly one Match of
\* the pair, and its length is L.  Stated for the stores the suffix index is
\* designed for (CleanStore) and for pairs that share at least one code
\* point; the claim covers these among all stores.
C1_EveryPairLongestMatch ==
    (Found /\ CleanStore) =>
        \A i, j \in 1..Len(history) :
            (/\ i < j
             /\ LongestCommon(DocText(i), DocText(j)) >= 1
             /\ LongestCommon(DocText(i), DocText(j)) >= ret.min_length) =>
                /\ Cardinality(MatchesOf(i, j)) = 1
                /\ \A k \in MatchesOf(i, j) :
                       ret.value[k].length = LongestCommon(DocText(i), DocText(j))

\* the text a match denotes in the accepted document with the given id: the
\* code points from start, and whether it lies inside the document
Denoted(sql_id, start, length) ==
    LET i == CHOOSE k \in 1..Len(history) : DocId(k) = sql_id IN
    IF start + length <= Len(DocText(i))
    THEN [inside |-> TRUE, text |-> SubSeq(DocText(i), start + 1, start + length)]
    ELSE [inside |-> FALSE, text |-> << >>]

\* C2: every returned Match lies inside both of its documents and denotes
\* the same code points in both.
C2_MatchesInsideAndEqual ==
    Found =>
        \A k \in 1..Len(ret.value) :
            LET m == ret.value[k]
                text1 == Denoted(m.doc1_id, m.start_pos1, m.length)
                text2 == Denoted(m.doc2_id, m.start_pos2, m.length)
            IN text1.inside /\ text2.inside /\ text1.text = text2.text

\* C3: the result holds at most one Match per pair of document ids, and in
\* every Match doc1_id < doc2_id.
C3_OneMatchPerOrderedPair ==
    Found =>
        /\ \A k \in 1..Len(ret.value) : ret.value[k].doc1_id < ret.value[k].doc2_id
        /\ \A k, l \in 1..Len(ret.value) :
               (k # l) =>
                   {ret.value[k].doc1_id, ret.value[k].doc2_id}
                       # {ret.value[l].doc1_id, ret.value[l].doc2_id}

\* a run on three documents that returned a Match for each of two pairs, one
\* of them found with the suffix of the larger id first
C3_Witness ==
    /\ Found /\ Len(history) = 3 /\ Len(ret.value) >= 2
    /\ DocId(1) > DocId(2)
    /\ \E k \in 1..Len(ret.value) :
           ret.value[k].doc1_id = DocId(2) /\ ret.value[k].doc2_id = DocId(1)

\* C4: every returned Match is at least min_length long; two identical
\* documents shorter than min_length produce no Match.
C4_NoMatchBelowThreshold ==
    Found =>
        /\ \A k \in 1..Len(ret.value) : ret.value[k].length >= ret.min_length
        /\ \A i, j \in 1..Len(history) :
               (i < j /\ DocText(i) = DocText(j) /\ Len(DocText(i)) < ret.min_length) =>
                   MatchesOf(i, j) = {}

\* C5: the result is sorted by length descending, then doc1_id ascending,
\* then doc2_id ascending.
C5_ResultSorted ==
    Found =>
        \A k \in 1..(Len(ret.value) - 1) :
            LET m == ret.value[k]
                n == ret.value[k + 1]
            IN \/ m.length > n.length
               \/ m.length = n.length /\ m.doc1_id < n.doc1_id
               \/ m.length = n.length /\ m.doc1_id = n.doc1_id /\ m.doc2_id < n.doc2_id

\* a result of three matches in which the length decides one neighbouring
\* pair and the ids decide another
C5_Witness ==
    /\ Found /\ Len(ret.value) = 3
    /\ ret.value[1].length > ret.value[2].length
    /\ ret.value[2].length = ret.value[3].length

\* C6: on a store whose concatenated text is empty, find_duplicates returns
\* an empty result, raises nothing and leaves the suffix builder untouched.
C6_EmptyTextNoBuild ==
    [][(ret'.op = "find_duplicates" /\ Length(concatenated_text_) = 0) =>
          /\ ret'.value = << >>
          /\ ~ret'.threw
          /\ UNCHANGED suffix_builder_]_vars

\* the finder has run on an empty store, and on a store of empty documents
\* with an empty separator
C6_Witness ==
    /\ ret.op = "find_duplicates" /\ Length(concatenated_text_) = 0
    /\ Len(pos_index_) >= 2

\* C7: add_document with an id already in the store returns false and leaves
\* the text and both views unchanged; with a new id it returns true.
C7_KnownIdRejected ==
    [][(ret'.op = "add_document") =>
          IF ret'.sql_id \in IdsOf(pos_index_)
          THEN /\ ret'.value = FALSE
               /\ UNCHANGED <<concatenated_text_, documents_, pos_index_>>
          ELSE ret'.value = TRUE]_vars

\* an id has been rejected by a store of two documents
C7_Witness ==
    /\ ret.op = "add_document" /\ ret.value = FALSE
    /\ Len(pos_index_) = 2 /\ ret.sql_id = pos_index_[1].sql_id

RECURSIVE JoinBodies(_)
\* the accepted bodies in insertion order, each followed by the separator
JoinBodies(h) ==
    IF h = << >> THEN << >>
    ELSE JoinBodies(SubSeq(h, 1, Len(h) - 1))
             \o CodePoints(h[Len(h)].content) \o CodePoints(separator_)

\* C8: the concatenated text is the accepted bodies in insertion order, each
\* followed by one copy of the separator; so a non-empty store's text ends
\* with the separator.
C8_TextIsJoinOfBodies ==
    /\ CodePoints(concatenated_text_) = JoinBodies(history)
    /\ concatenated_text_.data_ = Flatten(JoinBodies(history))
    /\ history # << >> =>
           SubSeq(CodePoints(concatenated_text_),
                  Length(concatenated_text_) - Length(separator_) + 1,
                  Length(concatenated_text_)) = CodePoints(separator_)

\* two documents, the first of them not empty, joined by the separator of two
\* code points
C8_Witness ==
    /\ Len(history) = 2 /\ Length(separator_) = 2
    /\ Length(history[1].content) >= 1

\* the recorded start of every document is the length of the text just
\* before its insertion
StartIsLengthBefore ==
    \A i \in 1..Len(history) : RecordOf(i).start_pos = Length(history[i].before)

\* C9 as stated: the recorded start of each document is the length of the
\* text before its insertion, and starts are strictly increasing in insertion
\* order, for every separator and document content.
C9_StartsStrictlyIncreasing ==
    /\ StartIsLengthBefore
    /\ \A i \in 1..(Len(history) - 1) : RecordOf(i).start_pos < RecordOf(i + 1).start_pos

\* C9 amended: the recorded start of each document is the length of the text
\* before its insertion; starts never decrease in insertion order, and the
\* start after a document is strictly larger unless that document and the
\* separator are both empty.
C9_StartsNonDecreasing ==
    /\ StartIsLengthBefore
    /\ \A i \in 1..(Len(history) - 1) :
           /\ RecordOf(i).start_pos <= RecordOf(i + 1).start_pos
           /\ (RecordOf(i).length > 0 \/ Length(separator_) > 0) =>
                  RecordOf(i).start_pos < RecordOf(i + 1).start_pos

\* three documents in a store with an empty separator: an empty one whose
\* successor shares its start, and a non-empty one whose successor starts later
C9_Witness ==
    /\ Len(history) = 3 /\ Length(separator_) = 0
    /\ RecordOf(1).start_pos = RecordOf(2).start_pos
    /\ RecordOf(2).start_pos < RecordOf(3).start_pos

\* the end of the range find_document_id gives the i-th accepted document
EndWithSeparator(i) ==
    RecordOf(i).start_pos + RecordOf(i).length
        + (IF i = Len(history) THEN 0 ELSE Length(separator_))

\* the accepted documents whose range holds pos
Owners(pos) ==
    {i \in 1..Len(history) : RecordOf(i).start_pos <= pos /\ pos < EndWithSeparator(i)}

InsideSeparator(pos) ==
    \E i \in 1..Len(history) :
        /\ RecordOf(i).start_pos + RecordOf(i).length <= pos
        /\ pos < RecordOf(i).start_pos + RecordOf(i).length + Length(separator_)

\* C11: find_document(pos) raises OutOfRange whenever pos is the position of
\* a separator code point, after whichever document the separator stands.
C11_SeparatorRaises ==
    (ret.op = "find_document_id" /\ InsideSeparator(ret.pos)) =>
        ret.value = OutOfRange

(***************************************************************************)
(* Vocabulary of the suffix-array properties.                              *)
(***************************************************************************)
\* the code points of the builder's text, and their number
BuiltText == CodePoints(GetText(suffix_builder_))
BuiltLen == Len(BuiltText)

\* the suffix of the builder's text that starts at position pos (0-based)
Suffix(pos) == SubSeq(BuiltText, pos + 1, BuiltLen)

RECURSIVE SeqLess(_, _)
\* lexicographic order of code-point sequences, code points in byte order
SeqLess(x, y) ==
    IF y = << >> THEN FALSE
    ELSE IF x = << >> THEN TRUE
    ELSE IF Head(x) # Head(y) THEN CharLess(Head(x), Head(y))
    ELSE SeqLess(Tail(x), Tail(y))

RECURSIVE CommonPrefix(_, _)
\* the number of leading code points two sequences share
CommonPrefix(x, y) ==
    IF x = << >> \/ y = << >> THEN 0
    ELSE IF Head(x) # Head(y) THEN 0
    ELSE 1 + CommonPrefix(Tail(x), Tail(y))

\* the positions of the builder's text ordered by their suffixes
TrueSuffixArray ==
    [r \in 1..BuiltLen |->
        CHOOSE pos \in 0..(BuiltLen - 1) :
            Cardinality({other \in 0..(BuiltLen - 1) :
                            SeqLess(Suffix(other), Suffix(pos))}) = r - 1]

\* the final code point of the builder's text occurs nowhere else in it
UniqueTerminator ==
    /\ BuiltLen >= 1
    /\ \A i \in 1..(BuiltLen - 1) : BuiltText[i] # BuiltText[BuiltLen]

\* C12: after a successful build over a text of n >= 1 code points the
\* suffix array has n entries and every index below n occurs in it.
C12_SuffixArrayIsPermutation ==
    IsBuilt(suffix_builder_) =>
        /\ BuiltLen >= 1
        /\ Len(suffix_builder_.suffix_array_) = BuiltLen
        /\ {suffix_builder_.suffix_array_[i] : i \in 1..BuiltLen} = 0..(BuiltLen - 1)

\* a build over a text of eight code points in which both code points repeat
C12_Witness ==
    /\ ret.op = "build" /\ ~ret.threw
    /\ BuiltLen = 8 /\ BuiltText[1] = BuiltText[2] /\ BuiltText[3] = BuiltText[7]

\* C13: for the concatenated text of a store with one or more documents the
\* built suffix array is strictly sorted: the suffix at sa[i-1] is
\* lexicographically less than the suffix at sa[i].
C13_StoreSuffixArraySorted ==
    (Found /\ Len(history) >= 1 /\ Length(concatenated_text_) >= 1) =>
        /\ GetText(suffix_builder_) = concatenated_text_
        /\ \A i \in 1..(BuiltLen - 1) :
               SeqLess(Suffix(suffix_builder_.suffix_array_[i]),
                       Suffix(suffix_builder_.suffix_array_[i + 1]))

\* C14: for a text whose final code point occurs exactly once, the built
\* suffix array is the true suffix array of the text.
C14_UniqueTerminatorTrueOrder ==
    (IsBuilt(suffix_builder_) /\ UniqueTerminator) =>
        suffix_builder_.suffix_array_ = TrueSuffixArray

\* a build over a$-like text of four code points whose first code point
\* repeats, so that the order of two suffixes is decided beyond their first
\* code point
C14_Witness ==
    /\ ret.op = "build" /\ ~ret.threw /\ UniqueTerminator
    /\ BuiltLen = 4 /\ BuiltText[1] = BuiltText[2] /\ BuiltText[3] # BuiltText[1]

\* C15: after a successful build over a text of n code points the LCP array
\* has n-1 entries and lcp[i] is the number of leading code points the
\* suffixes at sa[i] and sa[i+1] share.
C15_LcpIsCommonPrefix ==
    IsBuilt(suffix_builder_) =>
        /\ Len(suffix_builder_.lcp_array_) = BuiltLen - 1
        /\ \A i \in 1..(BuiltLen - 1) :
               suffix_builder_.lcp_array_[i]
                   = CommonPrefix(Suffix(suffix_builder_.suffix_array_[i]),
                                  Suffix(suffix_builder_.suffix_array_[i + 1]))

\* C16: after a successful build every LCP entry satisfies
\* 0 <= lcp[i] <= n - max(sa[i], sa[i+1]).
C16_LcpWithinText ==
    IsBuilt(suffix_builder_) =>
        \A i \in 1..(BuiltLen - 1) :
            /\ 0 <= suffix_builder_.lcp_array_[i]
            /\ suffix_builder_.lcp_array_[i]
                   <= BuiltLen - Max(suffix_builder_.suffix_array_[i],
                                     suffix_builder_.suffix_array_[i + 1])

\* C17: build on an empty text raises and is_built() is false afterwards;
\* build on a non-empty text returns true and is_built() is true afterwards.
C17_BuildOutcome ==
    (ret.op = "build") =>
        IF Length(ret.text) = 0
        THEN ret.threw /\ ~IsBuilt(suffix_builder_)
        ELSE ~ret.threw /\ ret.value = TRUE /\ IsBuilt(suffix_builder_)

\* a build on an empty text has raised on a builder that had been built
C17_Witness ==
    /\ ret.op = "build" /\ ret.threw /\ Length(ret.text) = 0
    /\ last_built # << >>

\* C18 as stated: once is_built() is true it is true after every later build
\* call, successful or failing.
C18_BuiltIsLatch ==
    [][IsBuilt(suffix_builder_) => IsBuilt(suffix_builder_')]_vars

\* C18 amended: once is_built() is true it stays true across reads and later
\* successful build calls, and a later build call that fails resets it to
\* false.
C18_BuiltUntilFailedBuild ==
    [][IsBuilt(suffix_builder_) =>
          (IsBuilt(suffix_builder_') <=> ~(ret'.op = "build" /\ ret'.threw))]_vars

\* is_built() is read as false on a builder that had been built: a failing
\* build came after the successful one
C18_Witness ==
    /\ ret.op = "is_built" /\ ret.value = FALSE
    /\ last_built # << >> /\ GetText(suffix_builder_) = last_built[1].text

OffsetOf(scalars, i) == Len(EncodeAll(SubSeq(scalars, 1, i - 1)))

\* C20: for the encoding of any sequence of scalar values (one to four
\* bytes each) construction succeeds, length() is the number of scalar
\* values, and the offsets table has one entry per scalar value, starting at
\* 0, strictly increasing, each at a leading byte.
C20_ValidUtf8Indexed ==
    (ret.op = "UTF8String") =>
        /\ ret.value # UTF8Error
        /\ ret.value.data_ = EncodeAll(ret.scalars)
        /\ Length(ret.value) = Len(ret.scalars)
        /\ Len(ret.value.char_pos_) = Len(ret.scalars)
        /\ \A i \in 1..Len(ret.scalars) :
               /\ ret.value.char_pos_[i] = OffsetOf(ret.scalars, i)
               /\ i = 1 => ret.value.char_pos_[i] = 0
               /\ i > 1 => ret.value.char_pos_[i - 1] < ret.value.char_pos_[i]
               /\ At(ret.value.data_, ret.value.char_pos_[i]) \notin 128..191

\* a string of a four-byte and a three-byte scalar value has been constructed
C20_Witness ==
    /\ ret.op = "UTF8String" /\ Len(ret.scalars) = 2
    /\ ret.scalars[1] >= 65536 /\ ret.scalars[2] \in 2048..65535
    /\ Length(ret.value) = 2

RECURSIVE WellFormed(_)
\* well-formed UTF-8 in the sense of the Unicode Standard: a sequence of the
\* byte patterns 00..7F, C2..DF t, E0 A0..BF t, E1..EC t t, ED 80..9F t,
\* EE..EF t t, F0 90..BF t t, F1..F3 t t t, F4 80..8F t t, t being 80..BF
WellFormed(bytes) ==
    LET n == Len(bytes)
        b(i) == bytes[i]
        tail(i) == i <= n /\ b(i) \in 128..191
        rest(k) == WellFormed(SubSeq(bytes, k + 1, n))
    IN IF n = 0 THEN TRUE
       ELSE IF b(1) \in 0..127 THEN rest(1)
       ELSE IF b(1) \in 194..223 THEN tail(2) /\ rest(2)
       ELSE IF b(1) = 224 THEN n >= 2 /\ b(2) \in 160..191 /\ tail(3) /\ rest(3)
       ELSE IF b(1) \in (225..236) \cup {238, 239}
            THEN tail(2) /\ tail(3) /\ rest(3)
       ELSE IF b(1) = 237 THEN n >= 2 /\ b(2) \in 128..159 /\ tail(3) /\ rest(3)
       ELSE IF b(1) = 240
            THEN n >= 2 /\ b(2) \in 144..191 /\ tail(3) /\ tail(4) /\ rest(4)
       ELSE IF b(1) \in 241..243 THEN tail(2) /\ tail(3) /\ tail(4) /\ rest(4)
       ELSE IF b(1) = 244
            THEN n >= 2 /\ b(2) \in 128..143 /\ tail(3) /\ tail(4) /\ rest(4)
       ELSE FALSE

\* C21: construction raises the UTF-8 error for every byte sequence that is
\* not well-formed UTF-8, and produces no string then.
C21_IllFormedRaises ==
    (ret.op = "UTF8String(bytes)" /\ ~WellFormed(ret.bytes)) =>
        ret.value = UTF8Error

\* C22: substring(start, len) raises OutOfRange when start > s.length() or
\* start + len exceeds s.length(), for every start and len of the unsigned
\* index type; otherwise it returns exactly the code points of s at
\* start .. start+len-1, and substring(0, s.length()) has the bytes of s.
C22_SubstrChecked ==
    (ret.op = "substr") =>
        IF ret.start > Length(ret.s) \/ ret.start + ret.length > Length(ret.s)
        THEN ret.value = OutOfRange
        ELSE /\ ret.value # OutOfRange /\ ret.value # UTF8Error
             /\ CodePoints(ret.value)
                    = SubSeq(CodePoints(ret.s), ret.start + 1, ret.start + ret.length)
             /\ (ret.start = 0 /\ ret.length = Length(ret.s)) =>
                    ret.value.data_ = ret.s.data_

\* the last call joined or appended two strings
Joined == ret.op \in {"operator+", "operator+=", "operator+=(self)",
                      "operator+=(std::string)"}

\* C23: concat(a, b) and a += b (a += a and appends of or to the empty
\* string included) yield r with r.length() = a.length() + b.length(),
\* r[i] = a[i] and r[a.length() + j] = b[j]; the in-place result equals the
\* concat result.
C23_JoinKeepsBoth ==
    Joined =>
        LET a == StringOf(ret.a)
            b == StringOf(ret.b)
            r == ret.value
        IN /\ r # UTF8Error
           /\ Length(r) = Length(a) + Length(b)
           /\ \A i \in 0..(Length(a) - 1) : CharEq(CharAt(r, i), CharAt(a, i))
           /\ \A j \in 0..(Length(b) - 1) :
                  CharEq(CharAt(r, Length(a) + j), CharAt(b, j))
           /\ StringEq(r, Concat(a, b))
           /\ Len(r.char_pos_) = r.char_count_

\* a string of a four-byte and a one-byte code point has been appended to
\* itself
C23_Witness ==
    /\ ret.op = "operator+=(self)" /\ Len(ret.a) = 2
    /\ ret.a[1] >= 65536 /\ ret.a[2] < 128
    /\ Length(ret.value) = 4 /\ ret.value.char_pos_ = <<0, 4, 5, 9>>

RECURSIVE ScalarsLess(_, _)
\* lexicographic order of sequences of code points by their values
ScalarsLess(x, y) ==
    IF y = << >> THEN FALSE
    ELSE IF x = << >> THEN TRUE
    ELSE IF Head(x) # Head(y) THEN Head(x) < Head(y)
    ELSE ScalarsLess(Tail(x), Tail(y))

\* C24: for two accepted strings, a < b holds exactly when the code points
\* of a are lexicographically less than those of b, and a == b exactly when
\* the code points are equal; likewise for two Characters.
C24_ByteOrderIsCodePointOrder ==
    /\ (ret.op = "compare") =>
           /\ ret.less <=> ScalarsLess(ret.a, ret.b)
           /\ ret.equal <=> (ret.a = ret.b)
    /\ (ret.op = "compare(Character)") =>
           /\ ret.less <=> (ret.a[ret.i + 1] < ret.b[ret.j + 1])
           /\ ret.equal <=> (ret.a[ret.i + 1] = ret.b[ret.j + 1])

\* two strings have been compared that agree on their first code point and
\* whose second code points differ in encoded width, the wider one last
C24_Witness ==
    /\ ret.op = "compare" /\ ret.less
    /\ Len(ret.a) = 2 /\ Len(ret.b) = 2 /\ ret.a[1] = ret.b[1]
    /\ Len(Encode(ret.a[2])) = 3 /\ Len(Encode(ret.b[2])) = 4

\* C25: find_duplicates(S, m) on a finder that has run on other stores and
\* thresholds returns what a fresh finder returns for S and m.
C25_FinderStateless ==
    /\ (ret.op = "find_duplicates(reused finder)") =>
           LET fresh == FindDuplicatesOf(pos_index_, separator_, concatenated_text_,
                                         FreshBuilder, ret.min_length)
           IN ret.threw = fresh.threw /\ ret.value = fresh.result
    /\ (ret.op = "find_duplicates(other store)") =>
           LET fresh == FindDuplicatesOf(ret.store.pos_index_, ret.store.separator_,
                                         ret.store.concatenated_text_, FreshBuilder,
                                         ret.min_length)
           IN ret.threw = fresh.threw /\ ret.value = fresh.result

\* the finder has returned a match for a store of two documents right after
\* a run on a longer text that left it an LCP array of seven entries, some
\* of them not zero
C25_Witness ==
    /\ ret.op = "find_duplicates(reused finder)" /\ Len(ret.value) >= 1
    /\ Len(history) = 2
    /\ IsBuilt(ret.before) /\ Len(ret.before.lcp_array_) = 7
    /\ \E i \in 1..7 : ret.before.lcp_array_[i] > 0
    /\ Len(suffix_builder_.lcp_array_) < 7

\* the words of a command line that are not the flag, in order
WithoutFlags(args) == SelectSeq(args, LAMBDA word : word \notin Flags)

\* C26: wherever -v / --verbose stands among the four positionals,
\* database_path, output_json_path, domain and threshold are bound as in the
\* invocation without the flag, and the run exits 0 on success and 1 on any
\* failure.
C26_FlagAnywhere ==
    (/\ ret.op = "main"
     /\ Len(ret.args) = 5
     /\ Len(WithoutFlags(ret.args)) = 4) =>
        LET plain == Main(WithoutFlags(ret.args), ret.pipeline_ok)
        IN /\ ret.value.verbose
           /\ ret.value.args = plain.args
           /\ ret.value.exit = plain.exit
           /\ ret.value.exit = (IF ret.value.args.bound /\ ret.pipeline_ok THEN 0 ELSE 1)

\* the names of the last createDocumentStore call that isValidName rejects
InvalidNames ==
    {name \in {ret.table_name, ret.filter_column, ret.content_column} :
        ~IsValidName(name)}

\* C27: with a table or column name that does not match
\* [A-Za-z_][A-Za-z0-9_]*, createDocumentStore fails with the handler's
\* error and no query built from that name has been prepared or executed.
C27_InvalidNameNeverReachesDb ==
    (ret.op = "createDocumentStore" /\ InvalidNames # {}) =>
        /\ ret.value.threw
        /\ \A k \in 1..Len(ret.value.database) :
               ret.value.database[k].names \cap InvalidNames = {}

\* the records of a view, as a set
RecordsOf(view) == {view[i] : i \in 1..Len(view)}

\* C28: after any sequence of add_document calls the by-id view and the
\* by-start view hold the same set of records, one per accepted document;
\* the by-start view is in non-decreasing start order and the by-id view
\* holds no two records with the same id.
C28_ViewsAgree ==
    /\ RecordsOf(documents_) = RecordsOf(pos_index_)
    /\ Len(documents_) = Len(history) /\ Len(pos_index_) = Len(history)
    /\ \A i \in 1..Len(history) :
           Cardinality({d \in RecordsOf(pos_index_) : d.sql_id = DocId(i)}) = 1
    /\ \A i \in 1..(Len(pos_index_) - 1) :
           pos_index_[i].start_pos <= pos_index_[i + 1].start_pos
    /\ \A i, j \in 1..Len(documents_) :
           (i # j) => documents_[i].sql_id # documents_[j].sql_id

\* three documents accepted with ids out of order, so that the two views
\* differ in order, and then a known id rejected
C28_Witness ==
    /\ Len(history) = 3 /\ DocId(1) > DocId(2) /\ DocId(2) < DocId(3)
    /\ documents_ # pos_index_
    /\ ret.op = "add_document" /\ ret.value = FALSE

\* the candidate of the adjacent pair (i, i + 1) of the arrays the last run
\* built, whatever its length
Candidate(i) ==
    ScanStep(pos_index_, separator_, last_built[1].suffix_array_,
             last_built[1].lcp_array_, i, 0)

\* the suffix-array indices whose adjacent pair lies in the two documents of m
CandidatesOf(m) ==
    {i \in 0..(Len(last_built[1].lcp_array_) - 1) :
        /\ ~Candidate(i).skip
        /\ Candidate(i).doc_pair = <<m.doc1_id, m.doc2_id>>}

\* those among them that reach the greatest clipped length
LongestCandidatesOf(m) ==
    {i \in CandidatesOf(m) :
        \A j \in CandidatesOf(m) :
            Candidate(j).match.length <= Candidate(i).match.length}

\* the last call was find_duplicates on a text that was built
FoundBuilt ==
    /\ Found /\ Len(last_built) = 1
    /\ last_built[1].text = concatenated_text_

\* C29: the stored Match of a document pair is replaced only by a strictly
\* longer candidate: when several adjacent suffix pairs of the same two
\* documents reach the same greatest clipped length, the returned Match
\* carries the start positions of the one with the smallest suffix-array
\* index.
C29_FirstLongestKept ==
    FoundBuilt =>
        \A k \in 1..Len(ret.value) :
            LET m == ret.value[k]
                first == CHOOSE i \in LongestCandidatesOf(m) :
                             \A j \in LongestCandidatesOf(m) : i <= j
            IN /\ LongestCandidatesOf(m) # {}
               /\ m = Candidate(first).match

\* a returned Match whose greatest clipped length is reached by a later
\* adjacent pair as well, at other start positions
C29_Witness ==
    /\ FoundBuilt
    /\ \E k \in 1..Len(ret.value) :
           \E i \in LongestCandidatesOf(ret.value[k]) :
               /\ Candidate(i).match # ret.value[k]
               /\ ret.value[k].length >= 1

\* find_duplicates on the store as it stands, with another threshold
ResultAt(min_length) ==
    FindDuplicatesOf(pos_index_, separator_, concatenated_text_, suffix_builder_,
                     min_length)

\* the matches of a result that are at least min_length long, in their order
AtLeast(matches, min_length) ==
    SelectSeq(matches, LAMBDA m : m.length >= min_length)

\* C30: raising the threshold only filters the result: for thresholds
\* m1 <= m2, find_duplicates(S, m2) is the sequence of the matches of
\* find_duplicates(S, m1) whose length is >= m2, with the same start
\* positions and in the same order.
C30_ThresholdOnlyFilters ==
    Found =>
        \A m1 \in 0..ret.min_length :
            /\ ~ResultAt(m1).threw
            /\ ret.value = AtLeast(ResultAt(m1).result, ret.min_length)

\* a run whose result is not empty and from which the threshold removed a
\* match that a lower threshold returns
C30_Witness ==
    /\ Found /\ Len(ret.value) >= 1
    /\ \E m1 \in 0..(ret.min_length - 1) :
           /\ Len(ResultAt(m1).result) > Len(ret.value)
           /\ \E k \in 1..Len(ResultAt(m1).result) :
                  ResultAt(m1).result[k].length >= 1
                      /\ ResultAt(m1).result[k].length < ret.min_length

====
